---- MODULE Spec2Model ----
(***************************************************************************)
(* Model of the nanos aarch64 interrupt registry and dispatcher            *)
(* (src/src/aarch64/interrupt.c), the drift-corrected clock                *)
(* (src/src/runtime/clock.h) and the priority queue declared in            *)
(* src/src/runtime/pqueue.h, and the read of the special file              *)
(* /sys/devices/system/cpu/online (src/src/unix/special.c).                *)
(*                                                                         *)
(* The module holds several specifications over one set of variables; a   *)
(* specification only moves the variables of its own component:            *)
(*   Spec        interrupt registry, controller and irq_handler            *)
(*   SpecAlloc   the interrupt vector allocator                            *)
(*   SpecClock   now() interleaved with calibration events                 *)
(*   SpecDrift   clock_get_drift / clock_update_drift as pure functions    *)
(*   SpecPqueue  the priority queue                                        *)
(*   SpecDefect  irq_handler given ids that have no handler record         *)
(*   SpecSync    synchronous_handler, serror_handler, invalid_handler      *)
(*   SpecTrace   frame_trace and print_stack                               *)
(*   SpecReinit  register_platform_clock_now among queries and events      *)
(*   SpecSmp     the registry called while irq_handler walks a list        *)
(*   SpecRace    now() on two cores at once                                *)
(*   SpecSpecial reads of the special file /sys/devices/system/cpu/online  *)
(***************************************************************************)
EXTENDS Integers, Sequences, FiniteSets, TLC

(***************************************************************************)
(* Program constants.                                                      *)
(***************************************************************************)
INTERRUPT_VECTOR_START == 32
MAX_INTERRUPT_VECTORS == 256
\* gic.h is not part of the sources at hand; 27 is the virtual timer PPI.
GIC_TIMER_IRQ == 27
\* priority of a line that set_int_priority was never called for
GIC_PRIORITY_RESET == 255

(***************************************************************************)
(* Bounds of the model.                                                    *)
(***************************************************************************)
\* inthandler records allocated over a run (init_interrupts takes the first)
MaxHandlers == 3

VectorIds == 0 .. (MAX_INTERRUPT_VECTORS - 1)
\* vectors that drivers register, unregister and assert in the model
RegVectors == {GIC_TIMER_IRQ, 45}
\* thunks handed to register_interrupt, with the thunk's name for display name;
\* the registry never looks into a thunk, records are told apart by address
Thunks == {"a"}

VARIABLES
    handlers,    \* handlers[v]: the list of inthandler records of vector v
    inth,        \* inth[h]: the fields (t, name) of allocated record h
    nalloc,      \* number of inthandler records allocated so far
    freeCount,   \* freeCount[h]: times record h was deallocated
    gic,         \* controller: enabled, pending, active sets and priority
    gicOps,      \* controller calls made by the last register/unregister
    stale,       \* pending assertions that predate the line's registration
    irqpc,       \* position of the core in irq_handler
    cur,         \* i: the id gic_dispatch_int returned
    hidx,        \* iterations of list_foreach(&handlers[cur], l) begun
    lcur,        \* l: the record the walk is at, 0 for the list head
    lnext,       \* the record list_foreach fetched to go to after the body
    uaf,         \* irq_handler has read a record after its deallocation
    arrived,     \* ids asserted on an enabled line since irq_handler was
                 \* entered and not dispatched yet
    taken,       \* ids that arrived so and were dispatched since
    snap,        \* handlers[cur] when the assertion was dispatched
    trace,       \* handler applications and eoi of the current assertion
    cpuState,    \* ci->state
    kernelCtx,   \* is_current_kernel_context(f)
    frameFull,   \* f[FRAME_FULL]
    halted,      \* the core has halted
    haltMsg,     \* which halt() stopped it
    lastCall     \* the operation that produced this state

irqVars == <<handlers, inth, nalloc, freeCount, gic, gicOps, stale, irqpc, cur,
             hidx, lcur, lnext, uaf, arrived, taken, snap, trace, cpuState,
             kernelCtx, frameFull, halted, haltMsg, lastCall>>

\* the interrupt vector allocator
VARIABLES
    idheap,      \* ids set in interrupt_vector_heap's bitmap
    outstanding, \* ids handed out or reserved and not yet deallocated
    allocCall    \* the last allocator call, its argument and its result

allocVars == <<idheap, outstanding, allocCall>>

\* the clock
VARIABLES
    vdso,        \* __vdso_dat: the shared calibration record
    raw,         \* the value apply(platform_monotonic_now) returns
    clockCall,   \* the last clock operation, its clock id and its result
    monoRet,     \* the last time now() returned for a drift-corrected
                 \* monotonic id
    neutral      \* no calibration event since the source was registered

\* clock_update_drift applied along two paths from one recorded state
VARIABLES
    dpc,         \* position in the experiment
    dR2,         \* the intermediate raw reading
    dR3,         \* the final raw reading
    dDirect,     \* drift of clock_update_drift(r3) from the recorded state
    dInc         \* drift of clock_update_drift(r2), clock_update_drift(r3)

\* the priority queue
VARIABLES
    pq,          \* the backing array: pq[1] is the root
    pqHeld,      \* how many of each value were inserted and not yet popped
    pqPopped,    \* the values popped since the last insert or reorder
    pqDirty,     \* a contained key was changed and pqueue_reorder not yet run
    pqSince,     \* the operation that last emptied pqPopped
    pqCall       \* the last queue operation, its argument and its result

\* the special file /sys/devices/system/cpu/online
VARIABLES
    total_processors, \* the number of processors
    sfOffset,    \* f->offset of the open file
    sfDest,      \* what the last read copied to dest
    sfCall       \* the last read: length and offset asked, count returned

specialVars == <<total_processors, sfOffset, sfDest, sfCall>>

\* two cores querying the clock at once
VARIABLES
    rpc,         \* rpc[c]: where core c is in now()
    rraw,        \* rraw[c]: t, the raw reading core c took
    rld,         \* rld[c]: the last_drift core c read
    rdrift,      \* rdrift[c]: the drift core c computed
    rret,        \* rret[c]: the time now() returned on core c
    rinit        \* the record before the two queries

raceVars == <<rpc, rraw, rld, rdrift, rret, rinit>>

\* the stack walkers
VARIABLES
    walker,      \* which walker runs: "frame_trace", "print_stack" or "none"
    tpc,         \* "walk" while the walker's loop runs, then "done"
    mapped,      \* the words validate_virtual accepts
    fp,          \* frame_trace: fp;  print_stack: x
    tcount,      \* frame_trace: frame;  print_stack: i
    reads,       \* the addresses the walker has read
    printed      \* lines printed

traceVars == <<walker, tpc, mapped, fp, tcount, reads, printed>>

\* the synchronous trap path
VARIABLES
    spc,          \* position of the core on the synchronous trap path
    frames,       \* frames[f]: the fields of frame f the handlers use
    runningFrame, \* ci->running_frame
    trapFrame,    \* f: the frame synchronous_handler was entered with
    fullAtTrap,   \* f[FRAME_FULL] when the trap was taken
    slog,         \* what the handler did for the trap, in order
    nested,       \* traps taken inside the diagnostic
    shalted       \* the core is in while(1) or in halt()

syncVars == <<spc, frames, runningFrame, trapFrame, fullAtTrap, slog, nested,
              shalted>>

pqVars == <<pq, pqHeld, pqPopped, pqDirty, pqSince, pqCall>>

clockVars == <<vdso, raw, clockCall, monoRet, neutral>>

driftVars == <<dpc, dR2, dR3, dDirect, dInc>>

vars == <<irqVars, allocVars, clockVars, driftVars, pqVars, syncVars, traceVars, raceVars, specialVars>>

\* lastCall: the operation, its argument, and for register_interrupt whether
\* the vector was shared (0), new (1) or new with a pending assertion (2),
\* for unregister_interrupt the number of records it released
Call(op, arg, info) == [op |-> op, arg |-> arg, info |-> info]

(***************************************************************************)
(* Interrupt controller (gic.h), as the dispatcher uses it.                *)
(***************************************************************************)
gic_set_int_priority(g, v, p) == [g EXCEPT !.priority[v] = p]

gic_clear_pending_int(g, v) == [g EXCEPT !.pending = @ \ {v}]

gic_enable_int(g, v) == [g EXCEPT !.enabled = @ \cup {v}]

gic_disable_int(g, v) == [g EXCEPT !.enabled = @ \ {v}]

\* ids gic_dispatch_int may return: pending on an enabled line
Deliverable(g) == g.pending \cap g.enabled

\* gic_dispatch_int returning id v: the line goes from pending to active
gic_dispatch_int(g, v) ==
    [g EXCEPT !.pending = @ \ {v}, !.active = @ \cup {v}]

gic_eoi(g, v) == [g EXCEPT !.active = @ \ {v}]

(***************************************************************************)
(* list.h as used by the registry: a list is the sequence of its records.  *)
(***************************************************************************)
list_empty(l) == l = <<>>

\* faulty variant: the new record is linked right after the head
list_insert_after(l, h) == <<h>> \o l

\* list_insert_before(head, new): the new record becomes the last one
list_insert_before(l, h) == Append(l, h)

(***************************************************************************)
(* register_interrupt                                                      *)
(***************************************************************************)
\* faulty variant: the line is enabled without clearing its pending state
RegisterGicNoClear(g, vector) ==
    [gic |-> gic_enable_int(gic_set_int_priority(g, vector, 0), vector),
     ops |-> << <<"set_int_priority", vector, 0>>, <<"enable_int", vector>> >>]

\* the controller calls of a first registration (!initialized)
RegisterGic(g, vector) ==
    [gic |-> gic_enable_int(
                 gic_clear_pending_int(
                     gic_set_int_priority(g, vector, 0), vector), vector),
     ops |-> << <<"set_int_priority", vector, 0>>,
                <<"clear_pending_int", vector>>,
                <<"enable_int", vector>> >>]

\* a registry call that does not run against the vector irq_handler is walking
RegistryFree(vector) == irqpc \in {"invoke", "eoi"} => cur # vector

register_interrupt(vector, t, name) ==
    /\ ~halted
    /\ nalloc < MaxHandlers
    /\ LET initialized == ~list_empty(handlers[vector])
           h == nalloc + 1
           r == RegisterGic(gic, vector)
       IN /\ nalloc' = h
          /\ inth' = [inth EXCEPT ![h] = [t |-> t, name |-> name]]
          /\ handlers' = [handlers EXCEPT ![vector] = list_insert_before(@, h)]
          /\ IF ~initialized
             THEN /\ gic' = r.gic
                  /\ gicOps' = r.ops
                  /\ stale' = IF vector \in r.gic.pending THEN stale
                              ELSE stale \ {vector}
                  /\ arrived' = arrived \ {vector}
             ELSE /\ gicOps' = <<>>
                  /\ UNCHANGED <<gic, stale, arrived>>
    /\ lastCall' = Call("register", vector,
                       IF ~list_empty(handlers[vector]) THEN 0
                       ELSE IF vector \in gic.pending THEN 2 ELSE 1)
    /\ UNCHANGED <<taken, freeCount, irqpc, cur, hidx, lcur, lnext, uaf, snap, trace,
                   cpuState, kernelCtx, frameFull, halted, haltMsg>>

(***************************************************************************)
(* unregister_interrupt                                                    *)
(***************************************************************************)
\* faulty variant: the line is left enabled
UnregisterGicKeep(g, vector) == g

UnregisterGic(g, vector) == gic_disable_int(g, vector)

\* faulty variant: only the first record is unlinked and released
ReleasedFirst(l) == IF l = <<>> THEN <<>> ELSE <<Head(l)>>

\* the records the list_foreach of unregister_interrupt deletes and releases
Released(l) == l

\* what is left of list l once the records in del are unlinked
list_delete_all(l, del) ==
    SelectSeq(l, LAMBDA h : \A i \in 1 .. Len(del) : del[i] # h)

\* deallocate(int_general, h, ...) for each record of del
deallocate_all(fc, del) ==
    [h \in DOMAIN fc |->
        fc[h] + Cardinality({i \in 1 .. Len(del) : del[i] = h})]

unregister_interrupt(vector) ==
    /\ ~halted
    /\ gic' = UnregisterGic(gic, vector)
    /\ gicOps' = << <<"disable_int", vector>> >>
    /\ stale' = stale \cup ({vector} \cap gic.pending)
    /\ arrived' = arrived \ {vector}
    /\ IF list_empty(handlers[vector])
       THEN /\ halted' = TRUE
            /\ haltMsg' = "no handler registered"
            /\ UNCHANGED <<handlers, freeCount>>
       ELSE /\ LET del == Released(handlers[vector])
               IN /\ handlers' = [handlers EXCEPT
                                     ![vector] = list_delete_all(@, del)]
                  /\ freeCount' = deallocate_all(freeCount, del)
            /\ UNCHANGED <<halted, haltMsg>>
    /\ lastCall' = Call("unregister", vector,
                       Len(handlers[vector]) - Len(handlers'[vector]))
    /\ UNCHANGED <<taken, inth, nalloc, irqpc, cur, hidx, lcur, lnext, uaf, snap,
                   trace, cpuState, kernelCtx, frameFull>>

(***************************************************************************)
(* The hardware asserting a line.                                          *)
(***************************************************************************)
\* irq_handler is between its entry and its last query of the controller
Draining == irqpc \in {"query", "invoke", "eoi"}

AssertLine(v) ==
    /\ ~halted
    /\ v \notin gic.pending
    /\ gic' = [gic EXCEPT !.pending = @ \cup {v}]
    /\ stale' = IF v \in gic.enabled THEN stale ELSE stale \cup {v}
    /\ arrived' = IF Draining /\ v \in gic.enabled THEN arrived \cup {v}
                  ELSE arrived
    /\ lastCall' = Call("assert", v, 0)
    /\ UNCHANGED <<taken, handlers, inth, nalloc, freeCount, gicOps, irqpc, cur, hidx,
                   lcur, lnext, uaf, snap, trace, cpuState, kernelCtx,
                   frameFull, halted, haltMsg>>

\* ids the controller can signal that no driver registered a handler for
UnregisteredIds == {46, MAX_INTERRUPT_VECTORS}

\* a line is enabled at the controller without a register_interrupt call
\* (left enabled by firmware, or enabled by a driver directly)
gic_enable_other(v) ==
    /\ ~halted
    /\ v \notin gic.enabled
    /\ gic' = gic_enable_int(gic, v)
    /\ lastCall' = Call("enable_other", v, 0)
    /\ UNCHANGED <<taken, handlers, inth, nalloc, freeCount, gicOps, stale, arrived,
                   irqpc, cur, hidx, lcur, lnext, uaf, snap, trace, cpuState,
                   kernelCtx, frameFull, halted, haltMsg>>

(***************************************************************************)
(* irq_handler                                                             *)
(***************************************************************************)
\* the IRQ exception is taken: the core enters irq_handler with frame f
IrqEnter ==
    /\ ~halted
    /\ irqpc = "idle"
    /\ Deliverable(gic) # {}
    /\ irqpc' = "query"
    /\ \E k \in BOOLEAN : kernelCtx' = k
    /\ frameFull' = TRUE
    /\ arrived' = {}
    /\ taken' = {}
    /\ lastCall' = Call("irq_enter", 0, 0)
    /\ UNCHANGED <<handlers, inth, nalloc, freeCount, gic, gicOps, stale, cur,
                   hidx, lcur, lnext, uaf, snap, trace, cpuState, halted,
                   haltMsg>>

\* &handlers[i] for an id the table has an entry for
HandlerList(i) == IF i \in VectorIds THEN handlers[i] ELSE <<>>

\* the record linked after h in list l; 0, the list head, when h is the last
\* record of l or is not linked in l
list_next(l, h) ==
    IF \E k \in 1 .. (Len(l) - 1) : l[k] = h
    THEN l[(CHOOSE k \in 1 .. (Len(l) - 1) : l[k] = h) + 1]
    ELSE 0

\* the first record of list l, 0 for an empty list
list_begin(l) == IF l = <<>> THEN 0 ELSE l[1]

\* faulty variant: only the range of the id is checked
DispatchHaltRangeOnly(i, l) ==
    IF i >= MAX_INTERRUPT_VECTORS THEN "exceeds MAX_INTERRUPT_VECTORS"
    ELSE "none"

\* the halt() irq_handler takes for the dispatched id i whose list is l;
\* "none" when it goes on to the handlers
DispatchHalt(i, l) ==
    IF i >= MAX_INTERRUPT_VECTORS THEN "exceeds MAX_INTERRUPT_VECTORS"
    ELSE IF list_empty(l) THEN "no handler for interrupt"
    ELSE "none"

\* while ((i = gic_dispatch_int()) != INTID_NO_PENDING): an id is returned
IrqDispatch ==
    /\ ~halted
    /\ irqpc = "query"
    /\ \E i \in Deliverable(gic) :
        /\ gic' = gic_dispatch_int(gic, i)
        /\ stale' = stale \ {i}
        /\ arrived' = arrived \ {i}
        /\ taken' = IF i \in arrived THEN taken \cup {i} ELSE taken
        /\ cur' = i
        /\ snap' = HandlerList(i)
        /\ trace' = <<>>
        /\ hidx' = 1
        /\ LET msg == DispatchHalt(i, HandlerList(i))
           IN IF msg # "none"
              THEN /\ halted' = TRUE
                   /\ haltMsg' = msg
                   /\ lcur' = 0
                   /\ lnext' = 0
                   /\ UNCHANGED irqpc
              ELSE /\ lcur' = list_begin(HandlerList(i))
                   /\ lnext' = list_next(HandlerList(i),
                                         list_begin(HandlerList(i)))
                   /\ irqpc' = IF list_empty(HandlerList(i)) THEN "eoi"
                               ELSE "invoke"
                   /\ UNCHANGED <<halted, haltMsg>>
        /\ lastCall' = Call("dispatch", i, 0)
    /\ UNCHANGED <<handlers, inth, nalloc, freeCount, gicOps, uaf, cpuState,
                   kernelCtx, frameFull>>

\* one iteration of list_foreach(&handlers[i], l): apply(h->t), then on to
\* the record fetched before the body, whose successor is fetched in turn.
\* Reading a record that was deallocated is undefined: the core either finds
\* the old contents still there or faults.
IrqInvoke ==
    /\ ~halted
    /\ irqpc = "invoke"
    /\ uaf' = (uaf \/ freeCount[lcur] > 0)
    /\ \/ /\ cpuState' = "interrupt"
          /\ trace' = Append(trace, <<"apply", lcur>>)
          /\ hidx' = hidx + 1
          /\ lcur' = lnext
          /\ lnext' = IF lnext = 0 THEN 0
                      ELSE IF freeCount[lnext] > 0 THEN list_next(snap, lnext)
                      ELSE list_next(handlers[cur], lnext)
          /\ irqpc' = IF lnext = 0 THEN "eoi" ELSE "invoke"
          /\ lastCall' = Call("apply", lcur, 0)
          /\ UNCHANGED <<halted, haltMsg>>
       \/ /\ freeCount[lcur] > 0
          /\ halted' = TRUE
          /\ haltMsg' = "released record"
          /\ lastCall' = Call("apply", lcur, 1)
          /\ UNCHANGED <<trace, hidx, lcur, lnext, irqpc, cpuState>>
    /\ UNCHANGED <<taken, handlers, inth, nalloc, freeCount, gic, gicOps, stale,
                   arrived, cur, snap, kernelCtx, frameFull>>

\* gic_eoi(i), then back to the loop condition
IrqEoi ==
    /\ ~halted
    /\ irqpc = "eoi"
    /\ gic' = gic_eoi(gic, cur)
    /\ trace' = Append(trace, <<"eoi", cur>>)
    /\ irqpc' = "query"
    /\ lastCall' = Call("eoi", cur, 0)
    /\ UNCHANGED <<taken, handlers, inth, nalloc, freeCount, gicOps, stale, arrived,
                   cur, hidx, lcur, lnext, uaf, snap, cpuState, kernelCtx,
                   frameFull, halted, haltMsg>>

\* faulty variant: the loop is left without asking the controller again
NoPendingUnasked(g) == TRUE

\* gic_dispatch_int() answers INTID_NO_PENDING
NoPending(g) == Deliverable(g) = {}

\* gic_dispatch_int() == INTID_NO_PENDING: leave the loop, yield to runloop
IrqExit ==
    /\ ~halted
    /\ irqpc = "query"
    /\ NoPending(gic)
    /\ frameFull' = IF kernelCtx THEN FALSE ELSE frameFull
    /\ irqpc' = "runloop"
    /\ lastCall' = Call("irq_exit", 0, 0)
    /\ UNCHANGED <<taken, handlers, inth, nalloc, freeCount, gic, gicOps, stale,
                   arrived, cur, hidx, lcur, lnext, uaf, snap, trace, cpuState,
                   kernelCtx, halted, haltMsg>>

\* runloop(): the core leaves the trap path and runs with interrupts open
Runloop ==
    /\ ~halted
    /\ irqpc = "runloop"
    /\ irqpc' = "idle"
    /\ cpuState' = "kernel"
    /\ taken' = {}
    /\ lastCall' = Call("runloop", 0, 0)
    /\ UNCHANGED <<handlers, inth, nalloc, freeCount, gic, gicOps, stale,
                   arrived, cur, hidx, lcur, lnext, uaf, snap, trace,
                   kernelCtx, frameFull, halted, haltMsg>>

(***************************************************************************)
(* init_interrupts: empty lists, the controller initialised, and the arm   *)
(* timer registered on GIC_TIMER_IRQ.                                      *)
(***************************************************************************)
\* init_gic(): every line disabled, nothing pending or active
InitGic ==
    [enabled |-> {}, pending |-> {}, active |-> {},
     priority |-> [v \in VectorIds |-> GIC_PRIORITY_RESET]]

InitIrq ==
    /\ handlers = [v \in VectorIds |->
                      IF v = GIC_TIMER_IRQ THEN <<1>> ELSE <<>>]
    /\ inth = [h \in 1 .. (MaxHandlers + 1) |->
                  IF h = 1 THEN [t |-> "arm_timer", name |-> "arm timer"]
                  ELSE [t |-> "none", name |-> "none"]]
    /\ nalloc = 1
    /\ freeCount = [h \in 1 .. (MaxHandlers + 1) |-> 0]
    /\ gic = RegisterGic(gic_set_int_priority(InitGic, GIC_TIMER_IRQ, 0),
                         GIC_TIMER_IRQ).gic
    /\ gicOps = RegisterGic(InitGic, GIC_TIMER_IRQ).ops
    /\ stale = {}
    /\ arrived = {}
    /\ taken = {}
    /\ irqpc = "idle"
    /\ cur = 0
    /\ hidx = 1
    /\ lcur = 0
    /\ lnext = 0
    /\ uaf = FALSE
    /\ snap = <<>>
    /\ trace = <<>>
    /\ cpuState = "kernel"
    /\ kernelCtx = FALSE
    /\ frameFull = FALSE
    /\ halted = FALSE
    /\ haltMsg = "none"
    /\ lastCall = Call("init_interrupts", GIC_TIMER_IRQ, 1)

(***************************************************************************)
(* The interrupt vector allocator: an id heap over                         *)
(* [INTERRUPT_VECTOR_START, MAX_INTERRUPT_VECTORS).                        *)
(***************************************************************************)
\* outstanding ids the model lets accumulate
MaxOutstanding == 3

\* what allocate_u64 returns when the heap is exhausted
INVALID_PHYSICAL == -1

\* ids handed to reserve_interrupt and deallocate_interrupt
ReserveIds == {INTERRUPT_VECTOR_START - 1, INTERRUPT_VECTOR_START,
               INTERRUPT_VECTOR_START + 1, MAX_INTERRUPT_VECTORS - 1,
               MAX_INTERRUPT_VECTORS}

VectorHeapBase == INTERRUPT_VECTOR_START

\* faulty variant: the length is given as the end of the range
VectorHeapLengthAsEnd == MAX_INTERRUPT_VECTORS

VectorHeapLength == MAX_INTERRUPT_VECTORS - INTERRUPT_VECTOR_START

\* the ids of the heap create_id_heap(base, length) manages
IdHeapRange == VectorHeapBase .. (VectorHeapBase + VectorHeapLength - 1)

\* the ids an allocation may return: any unset id; the model follows the
\* lowest and the highest of them
IdHeapCandidates(b) ==
    LET free == IdHeapRange \ b
    IN {i \in free : (\A j \in free : i <= j) \/ (\A j \in free : i >= j)}

allocate_interrupt ==
    /\ Cardinality(idheap) < MaxOutstanding
    /\ IF IdHeapRange \ idheap = {}
       THEN /\ allocCall' = Call("allocate", 0, INVALID_PHYSICAL)
            /\ UNCHANGED <<idheap, outstanding>>
       ELSE \E i \in IdHeapCandidates(idheap) :
               /\ idheap' = idheap \cup {i}
               /\ outstanding' = outstanding \cup {i}
               /\ allocCall' = Call("allocate", 0, i)

\* deallocate_u64 on an id heap: an id that is not set stays unset
deallocate_interrupt(irq) ==
    /\ idheap' = idheap \ {irq}
    /\ outstanding' = outstanding \ {irq}
    /\ allocCall' = Call("deallocate", irq, 0)

\* id_heap_set_area(h, irq, 1, validate, allocate): fails outside the range
\* and on an id that is already set
reserve_interrupt(irq) ==
    /\ Cardinality(idheap) < MaxOutstanding
    /\ IF irq \in IdHeapRange \ idheap
       THEN /\ idheap' = idheap \cup {irq}
            /\ outstanding' = outstanding \cup {irq}
            /\ allocCall' = Call("reserve", irq, 1)
       ELSE /\ allocCall' = Call("reserve", irq, 0)
            /\ UNCHANGED <<idheap, outstanding>>

InitAlloc ==
    /\ idheap = {}
    /\ outstanding = {}
    /\ allocCall = Call("create_id_heap", 0, 0)

(***************************************************************************)
(* The priority queue of pqueue.h: a binary min-heap in an array, ordered  *)
(* by the caller's predicate.  An element is modelled by its key.          *)
(***************************************************************************)
\* the most elements the queue holds
MaxQueue == 4

\* the keys of the elements
Keys == {1, 3, 5, 8}

\* what pqueue_peek and pqueue_pop return on an empty queue
PQ_EMPTY == 0

\* the caller's ordering predicate: integers under less-than
PqLess(a, b) == a < b

PqSwap(a, i, j) == [a EXCEPT ![i] = a[j], ![j] = a[i]]

RECURSIVE PqSiftUp(_, _)
PqSiftUp(a, i) ==
    IF i > 1 /\ PqLess(a[i], a[i \div 2])
    THEN PqSiftUp(PqSwap(a, i, i \div 2), i \div 2)
    ELSE a

\* the index among i and its children that holds the least element
PqLeast(a, i) ==
    LET l == 2 * i
        r == 2 * i + 1
        m == IF l <= Len(a) /\ PqLess(a[l], a[i]) THEN l ELSE i
    IN IF r <= Len(a) /\ PqLess(a[r], a[m]) THEN r ELSE m

\* faulty variant: the right child is never looked at
PqSiftDownLeft(a, i) ==
    IF 2 * i <= Len(a) /\ PqLess(a[2 * i], a[i])
    THEN PqSwap(a, i, 2 * i)
    ELSE a

RECURSIVE PqSiftDown(_, _)
PqSiftDown(a, i) ==
    IF PqLeast(a, i) # i
    THEN PqSiftDown(PqSwap(a, i, PqLeast(a, i)), PqLeast(a, i))
    ELSE a

\* the array after pqueue_insert(q, v): append, sift up
PqInserted(a, v) == PqSiftUp(Append(a, v), Len(a) + 1)

\* pqueue_peek(q)
PqPeeked(a) == IF a = <<>> THEN PQ_EMPTY ELSE a[1]

\* what pqueue_pop(q) returns: the root
PqPopReturn(a) == IF Len(a) = 0 THEN PQ_EMPTY ELSE Head(a)

\* the array after pqueue_pop(q): the last element takes the root's place
\* and is sifted down
PqPopped(a) ==
    IF Len(a) <= 1 THEN <<>>
    ELSE PqSiftDown([SubSeq(a, 1, Len(a) - 1) EXCEPT ![1] = a[Len(a)]], 1)

RECURSIVE PqHeapify(_, _)
PqHeapify(a, i) == IF i < 1 THEN a ELSE PqHeapify(PqSiftDown(a, i), i - 1)

\* faulty variant: only the root is sifted down
PqReorderRootOnly(a) == IF a = <<>> THEN a ELSE PqSiftDown(a, 1)

\* the array after pqueue_reorder(q): every inner node sifted down, last first
PqReordered(a) == PqHeapify(a, Len(a) \div 2)

PqIsHeap(a) == \A i \in 2 .. Len(a) : ~PqLess(a[i], a[i \div 2])

PqBag(a) == [k \in Keys |-> Cardinality({i \in 1 .. Len(a) : a[i] = k})]

\* insert, peek and pop are used on a queue whose keys are in order; after a
\* key was changed the owner calls pqueue_reorder first
pqueue_insert(v) ==
    /\ ~pqDirty
    /\ Len(pq) < MaxQueue
    /\ pq' = PqInserted(pq, v)
    /\ pqHeld' = [pqHeld EXCEPT ![v] = @ + 1]
    /\ pqPopped' = <<>>
    /\ pqSince' = "insert"
    /\ pqCall' = Call("insert", v, 0)
    /\ UNCHANGED pqDirty

pqueue_peek ==
    /\ ~pqDirty
    /\ pqCall' = Call("peek", 0, PqPeeked(pq))
    /\ UNCHANGED <<pq, pqHeld, pqPopped, pqDirty, pqSince>>

pqueue_pop ==
    /\ ~pqDirty
    /\ pq' = PqPopped(pq)
    /\ pqCall' = Call("pop", 0, PqPopReturn(pq))
    /\ IF pq = <<>>
       THEN UNCHANGED <<pqHeld, pqPopped>>
       ELSE /\ pqHeld' = [pqHeld EXCEPT ![pq[1]] = @ - 1]
            /\ pqPopped' = Append(pqPopped, pq[1])
    /\ UNCHANGED <<pqDirty, pqSince>>

\* the owner changes the key of the element in slot i, behind the queue's back
PqChangeKey(i, k) ==
    /\ i \in 1 .. Len(pq)
    /\ pq[i] # k
    /\ pq' = [pq EXCEPT ![i] = k]
    /\ pqHeld' = [pqHeld EXCEPT ![pq[i]] = @ - 1, ![k] = @ + 1]
    /\ pqPopped' = <<>>
    /\ pqSince' = "change_key"
    /\ pqDirty' = TRUE
    /\ pqCall' = Call("change_key", i, k)

\* pqueue_reorder; the result field records whether the array was out of
\* order when it was called
pqueue_reorder ==
    /\ pq' = PqReordered(pq)
    /\ pqPopped' = <<>>
    /\ pqSince' = IF PqIsHeap(pq) THEN "reorder" ELSE "reorder_repair"
    /\ pqDirty' = FALSE
    /\ pqCall' = Call("reorder", 0, IF PqIsHeap(pq) THEN 0 ELSE 1)
    /\ UNCHANGED pqHeld

InitPq ==
    /\ pq = <<>>
    /\ pqHeld = [k \in Keys |-> 0]
    /\ pqPopped = <<>>
    /\ pqDirty = FALSE
    /\ pqSince = "allocate_pqueue"
    /\ pqCall = Call("allocate_pqueue", 0, 0)

(***************************************************************************)
(* clock.h: drift correction.                                              *)
(*                                                                         *)
(* TLC's integers have 32 bits, so a coefficient cannot be held as the     *)
(* 32.32 fixed-point number it is.  The model draws coefficients that are  *)
(* multiples of 2^30 and holds them divided by 2^30 (4 is the rate 1.0,    *)
(* 0x100000000); for such a coefficient (interval * cal) >> 32 is exactly  *)
(* (interval * (cal / 2^30)) >> 2.  Intervals and products stay far below  *)
(* 2^63, so no 64-bit operation of the code wraps in the model.            *)
(***************************************************************************)
CLOCK_CALIBR_BITS == 32

\* fractional bits left once a coefficient is divided by 2^30
CalFracBits == CLOCK_CALIBR_BITS - 30

\* the rate 1.0, 0x100000000 in the code's units
CalOne == 2 ^ CalFracBits

CLOCK_ID_REALTIME == 0
CLOCK_ID_MONOTONIC == 1
CLOCK_ID_MONOTONIC_RAW == 4

\* faulty variant: the negative branch shifts the signed product
clock_calculate_drift_floor(interval, cal) ==
    IF cal >= 0 THEN (interval * cal) \div (2 ^ CalFracBits)
    ELSE -((interval * (-cal)) \div (2 ^ CalFracBits)) - 1

clock_calculate_drift(interval, cal) ==
    IF cal >= 0 THEN (interval * cal) \div (2 ^ CalFracBits)
    ELSE -((interval * (-cal)) \div (2 ^ CalFracBits))

clock_get_drift(d, r) ==
    IF d.temp_cal = 0 /\ d.cal = 0 THEN 0
    ELSE IF r > d.sync_complete
    THEN IF d.last_raw > d.sync_complete
         THEN d.last_drift + clock_calculate_drift(r - d.last_raw, d.cal)
         ELSE d.last_drift
              + clock_calculate_drift(d.sync_complete - d.last_raw, d.temp_cal)
              + clock_calculate_drift(r - d.sync_complete, d.cal)
    ELSE d.last_drift + clock_calculate_drift(r - d.last_raw, d.temp_cal)

\* faulty variant: the drift is stored, the reading it belongs to is not
clock_update_drift_keep_raw(d, r) ==
    [d EXCEPT !.last_drift = clock_get_drift(d, r)]

\* the record after clock_update_drift(r); the drift returned is its last_drift
clock_update_drift(d, r) ==
    [d EXCEPT !.last_drift = clock_get_drift(d, r), !.last_raw = r]

\* the counter readings of a run
MaxRaw == 4

\* coefficients of calibration events: -0.5, 0, 0.5 and 1.0
CalSet == {-(CalOne \div 2), 0, CalOne \div 2, CalOne}

\* boundaries of calibration events
SyncSet == {0, 2}

ClockIds == {CLOCK_ID_REALTIME, CLOCK_ID_MONOTONIC, CLOCK_ID_MONOTONIC_RAW}

\* the platform counter advances
Tick ==
    /\ raw < MaxRaw
    /\ raw' = raw + 1
    /\ clockCall' = Call("tick", 0, raw + 1)
    /\ UNCHANGED <<vdso, monoRet, neutral>>

\* faulty variant: the record is brought up to date for every id
NowUpdatesAlways(id) == TRUE

\* whether now(id) goes on to clock_update_drift: not for the raw clock
NowUpdates(id) == id # CLOCK_ID_MONOTONIC_RAW

\* a 64-bit value hi * 2^32 + lo, held as <<hi, lo>>
Wide(hi, lo) == <<hi, lo>>

\* w + x for a wide value w and a small x
WideAdd(w, x) == <<w[1], w[2] + x>>

now(id) ==
    LET t == raw
        d == clock_update_drift(vdso, t)
    IN /\ IF ~NowUpdates(id)
          THEN /\ clockCall' = Call("now", id, t)
               /\ UNCHANGED <<vdso, monoRet>>
          ELSE /\ vdso' = d
               /\ clockCall' = Call("now", id,
                      IF id = CLOCK_ID_REALTIME
                      THEN WideAdd(vdso.rtc_offset, t + d.last_drift)
                      ELSE t + d.last_drift)
               /\ monoRet' = IF id = CLOCK_ID_REALTIME THEN monoRet
                             ELSE t + d.last_drift
       /\ UNCHANGED <<raw, neutral>>

\* a calibration event (clock_adjust): the record is brought up to the
\* current reading, then the coefficients and the boundary are replaced
clock_adjust(temp_cal, sync_complete, cal) ==
    /\ vdso' = [clock_update_drift(vdso, raw) EXCEPT
                   !.temp_cal = temp_cal,
                   !.sync_complete = sync_complete,
                   !.cal = cal]
    /\ clockCall' = Call("clock_adjust", 0, 0)
    /\ neutral' = FALSE
    /\ UNCHANGED <<raw, monoRet>>

\* faulty variant: the offset is computed whatever the real-time clock says
RtcOffsetUnchecked(rt, t) == Wide(rt, -t)

\* rt ? (rt << 32) - apply(platform_monotonic_now) : 0
RtcOffset(rt, t) == IF rt # 0 THEN Wide(rt, -t) ELSE Wide(0, 0)

\* the record reset_clock_vdso_dat leaves, rt being what rtc_gettimeofday
\* returns and t the raw reading
reset_clock_vdso_dat(d, rt, t) ==
    [d EXCEPT !.rtc_offset = RtcOffset(rt, t),
              !.temp_cal = 0, !.cal = 0, !.sync_complete = 0,
              !.last_raw = 0, !.last_drift = 0]

register_platform_clock_now(id, rt) ==
    /\ vdso' = reset_clock_vdso_dat([vdso EXCEPT !.clock_src = id], rt, raw)
    /\ clockCall' = Call("register_platform_clock_now", id, rt)
    /\ neutral' = TRUE
    /\ monoRet' = 0
    /\ UNCHANGED raw

\* reset_clock_vdso_dat with no real-time clock, at counter reading 0
InitClock ==
    /\ vdso = [clock_src |-> 0, rtc_offset |-> Wide(0, 0), temp_cal |-> 0, cal |-> 0,
               sync_complete |-> 0, last_raw |-> 0, last_drift |-> 0]
    /\ raw = 0
    /\ clockCall = Call("register_platform_clock_now", 0, 0)
    /\ monoRet = 0
    /\ neutral = TRUE

(***************************************************************************)
(* synchronous_handler, serror_handler and invalid_handler.                *)
(* The cause word esr is held as its two 16-bit halves <<hi, lo>>.         *)
(***************************************************************************)
\* the exception class field, bits 31:26 of esr
ESR_EC(esr) == esr[1] \div 1024

\* the instruction length bit, bit 25 of esr
ESR_IL(esr) == (esr[1] \div 512) % 2

\* the immediate of a supervisor call, bits 15:0 of esr
ESR_ISS_IMM16(esr) == esr[2]

\* the word with exception class ec, length bit il and syndrome bits 24:16
\* and 15:0
EsrWord(ec, il, issHi, issLo) == <<ec * 1024 + il * 512 + issHi, issLo>>

ESR_EC_UNKNOWN == 0
ESR_EC_SVC_AARCH64 == 21
ESR_EC_HVC_AARCH64 == 22
ESR_EC_DATA_ABRT_LEL == 36
ESR_EC_DATA_ABRT == 37

\* the data abort taken from the kernel when it reads an unmapped address
EsrKernelAbort == EsrWord(ESR_EC_DATA_ABRT, 1, 0, 7)

\* cause words the hardware presents: svc #0, svc #1, hvc #0, an unknown
\* instruction, and data aborts whose low syndrome half is zero or not
EsrWords ==
    {EsrWord(ESR_EC_SVC_AARCH64, 1, 0, 0),
     EsrWord(ESR_EC_SVC_AARCH64, 1, 0, 1),
     EsrWord(ESR_EC_HVC_AARCH64, 1, 0, 0),
     EsrWord(ESR_EC_UNKNOWN, 0, 0, 0),
     EsrWord(ESR_EC_DATA_ABRT_LEL, 1, 1, 0),
     EsrKernelAbort}

\* the frames of the core: a thread's frame and ci->kernel_context->frame
Frames == {"thread", "kernel"}

\* values of x8 at the trap
SyscallNumbers == {0, 93}

\* nested traps a diagnostic may take before the model stops following them
MaxNested == 2

\* faulty variant: the immediate of the supervisor call is not looked at
IsSyscallAnyImm(esr) ==
    ESR_EC(esr) = ESR_EC_SVC_AARCH64 /\ ESR_IL(esr) # 0

\* the test at the head of synchronous_handler
IsSyscall(esr) ==
    /\ ESR_EC(esr) = ESR_EC_SVC_AARCH64
    /\ ESR_IL(esr) # 0
    /\ ESR_ISS_IMM16(esr) = 0

is_current_kernel_context(f) == f = "kernel"

\* faulty variant: the flag is cleared whatever the frame
ClearsFullAlways(f) == TRUE

\* whether synchronous_handler clears f[FRAME_FULL] before runloop()
ClearsFull(f) == is_current_kernel_context(f)

\* faulty variant: the reference is used without looking at it
FaultHandlerAssumed(fr) == TRUE

\* fh != 0 for the frame whose fields are fr
FaultHandlerPresent(fr) == fr.fh

\* a synchronous exception is taken while frame f runs
TakeSync(f, esr, x8, fh, full) ==
    /\ ~shalted
    /\ spc = "run"
    /\ runningFrame' = f
    /\ trapFrame' = f
    /\ frames' = [frames EXCEPT ![f] = [@ EXCEPT !.esr = esr, !.x8 = x8,
                                                  !.fh = fh, !.full = full]]
    /\ fullAtTrap' = full
    /\ slog' = << <<"trap", f>> >>
    /\ nested' = 0
    /\ spc' = "entry"
    /\ UNCHANGED shalted

\* synchronous_handler up to the call it hands the trap to
synchronous_handler ==
    /\ ~shalted
    /\ spc = "entry"
    /\ LET f == runningFrame
       IN IF IsSyscall(frames[f].esr)
          THEN /\ frames' = [frames EXCEPT ![f].vector = frames[f].x8]
               /\ runningFrame' = "kernel"
               /\ slog' = Append(slog, <<"syscall", f>>)
               /\ spc' = "syscall"
          ELSE IF FaultHandlerPresent(frames[f])
          THEN /\ slog' = Append(slog, <<"fault_handler", f>>)
               /\ spc' = "fault_handler"
               /\ UNCHANGED <<frames, runningFrame>>
          ELSE /\ slog' = IF nested = 0
                          THEN Append(slog, <<"no fault handler", f>>)
                          ELSE slog
               /\ spc' = "diag"
               /\ UNCHANGED <<frames, runningFrame>>
    /\ UNCHANGED <<trapFrame, fullAtTrap, nested, shalted>>

\* the syscall entry comes back to synchronous_handler: halt()
SyscallReturns ==
    /\ ~shalted
    /\ spc = "syscall"
    /\ shalted' = TRUE
    /\ slog' = Append(slog, <<"halt", "syscall returned">>)
    /\ UNCHANGED <<spc, frames, runningFrame, trapFrame, fullAtTrap, nested>>

\* the syscall entry drives the run loop itself
SyscallSchedules ==
    /\ ~shalted
    /\ spc = "syscall"
    /\ spc' = "run"
    /\ slog' = Append(slog, <<"scheduled", runningFrame>>)
    /\ UNCHANGED <<frames, runningFrame, trapFrame, fullAtTrap, nested,
                   shalted>>

\* apply(fh, f) returns retframe; frame_return(retframe) or runloop()
FaultHandlerReturns(retframe) ==
    /\ ~shalted
    /\ spc = "fault_handler"
    /\ LET f == trapFrame
       IN IF retframe # "none"
          THEN /\ slog' = Append(slog, <<"frame_return", retframe>>)
               /\ spc' = "run"
               /\ UNCHANGED frames
          ELSE /\ frames' = IF ClearsFull(f)
                            THEN [frames EXCEPT ![f].full = FALSE]
                            ELSE frames
               /\ slog' = slog \o (IF ClearsFull(f)
                                   THEN << <<"clear_full", f>> >> ELSE <<>>)
                               \o << <<"runloop", f>> >>
               /\ spc' = "runloop"
    /\ UNCHANGED <<runningFrame, trapFrame, fullAtTrap, nested, shalted>>

\* runloop() schedules the next frame
SyncRunloop ==
    /\ ~shalted
    /\ spc = "runloop"
    /\ spc' = "run"
    /\ slog' = Append(slog, <<"scheduled", runningFrame>>)
    /\ UNCHANGED <<frames, runningFrame, trapFrame, fullAtTrap, nested,
                   shalted>>

\* the diagnostic of the no-handler branch: print_frame, print_stack, then
\* while(1).  print_stack reads the stack without validating it, so the
\* diagnostic may take a data abort of its own, which enters
\* synchronous_handler again with the same running frame.
Diagnostic(faults) ==
    /\ ~shalted
    /\ spc = "diag"
    /\ IF faults
       THEN /\ nested < MaxNested
            /\ nested' = nested + 1
            /\ frames' = [frames EXCEPT ![runningFrame].esr = EsrKernelAbort]
            /\ spc' = "entry"
            /\ UNCHANGED <<slog, shalted>>
       ELSE /\ shalted' = TRUE
            /\ slog' = Append(slog, <<"halt", "while(1)">>)
            /\ UNCHANGED <<spc, frames, nested>>
    /\ UNCHANGED <<runningFrame, trapFrame, fullAtTrap>>

\* serror_handler and invalid_handler: halt() with the handler's name
serror_handler ==
    /\ ~shalted
    /\ spc = "run"
    /\ shalted' = TRUE
    /\ slog' = << <<"halt", "serror_handler">> >>
    /\ UNCHANGED <<spc, frames, runningFrame, trapFrame, fullAtTrap, nested>>

invalid_handler ==
    /\ ~shalted
    /\ spc = "run"
    /\ shalted' = TRUE
    /\ slog' = << <<"halt", "invalid_handler">> >>
    /\ UNCHANGED <<spc, frames, runningFrame, trapFrame, fullAtTrap, nested>>

InitSync ==
    /\ spc = "run"
    /\ frames = [f \in Frames |->
                    [esr |-> EsrWord(ESR_EC_UNKNOWN, 0, 0, 0), x8 |-> 0,
                     vector |-> 0, full |-> FALSE, fh |-> FALSE]]
    /\ runningFrame = "thread"
    /\ trapFrame = "thread"
    /\ fullAtTrap = FALSE
    /\ slog = <<>>
    /\ nested = 0
    /\ shalted = FALSE

(***************************************************************************)
(* frame_trace and print_stack.  A 64-bit address below 2^30 is held as    *)
(* itself and the address 0xffff000000000000 + k as KernelBase + k, which  *)
(* keeps the order of addresses and their distances.                       *)
(***************************************************************************)
KernelBase == 2 ^ 30

\* frames frame_trace walks at most
FRAME_TRACE_DEPTH == 16

\* frame pointers below this end the walk
FRAME_TRACE_MIN == 4096

STACK_TRACE_DEPTH == 128

\* 0xffff000000020000, the address print_stack stops at
STACK_TRACE_TOP == KernelBase + 131072

\* the words that may be mapped; every other address is unmapped
MemWords == {4096, 4104, KernelBase + 4096, KernelBase + 4104,
             STACK_TRACE_TOP - 16, STACK_TRACE_TOP - 8}

\* frame pointers: the saved x29 and what a frame record's first word holds
FramePointers == {0, 4088, 4096, KernelBase + 4096, KernelBase + 4104}

\* return addresses a frame record's second word holds
ReturnAddresses == {0, 77}

\* values of c[FRAME_SP]
StackPointers == {4096, KernelBase + 4096, STACK_TRACE_TOP - 16,
                  STACK_TRACE_TOP}

\* validate_virtual(a, sizeof(u64))
validate_virtual(m, a) == a \in m

\* one iteration of the for loop of frame_trace; n and nextfp are the words
\* memory holds at fp + 1 and at fp
frame_trace(n, nextfp) ==
    /\ walker = "frame_trace"
    /\ tpc = "walk"
    /\ IF tcount >= FRAME_TRACE_DEPTH
       THEN /\ tpc' = "done"
            /\ UNCHANGED <<fp, tcount, reads, printed>>
       ELSE IF fp < FRAME_TRACE_MIN
       THEN /\ tpc' = "done"
            /\ UNCHANGED <<fp, tcount, reads, printed>>
       ELSE IF ~validate_virtual(mapped, fp) \/ ~validate_virtual(mapped, fp + 8)
       THEN /\ tpc' = "done"
            /\ UNCHANGED <<fp, tcount, reads, printed>>
       ELSE IF n = 0
       THEN /\ tpc' = "done"
            /\ reads' = reads \cup {fp + 8}
            /\ UNCHANGED <<fp, tcount, printed>>
       ELSE /\ reads' = reads \cup {fp + 8, fp}
            /\ fp' = nextfp
            /\ printed' = printed + 1
            /\ tcount' = tcount + 1
            /\ UNCHANGED tpc
    /\ UNCHANGED <<walker, mapped>>

\* one iteration of the for loop of print_stack
print_stack ==
    /\ walker = "print_stack"
    /\ tpc = "walk"
    /\ IF tcount < STACK_TRACE_DEPTH /\ fp < STACK_TRACE_TOP
       THEN /\ reads' = reads \cup {fp}
            /\ printed' = printed + 1
            /\ fp' = fp + 8
            /\ tcount' = tcount + 1
            /\ UNCHANGED tpc
       ELSE /\ tpc' = "done"
            /\ UNCHANGED <<fp, tcount, reads, printed>>
    /\ UNCHANGED <<walker, mapped>>

\* no walker runs
InitTraceIdle ==
    /\ walker = "none"
    /\ tpc = "done"
    /\ mapped = {}
    /\ fp = 0
    /\ tcount = 0
    /\ reads = {}
    /\ printed = 0

(***************************************************************************)
(* now() on two cores at once: each core's reads and writes of the shared  *)
(* record are steps of their own, nothing orders them between the cores.   *)
(***************************************************************************)
Cores == {1, 2}

\* the largest counter reading of the two queries
MaxRaceRaw == 3

\* whole coefficients, 1.0 and 2.0, so that no product is truncated
RaceCalSet == {CalOne, 2 * CalOne}

\* drifts recorded before the queries
RaceDriftSet == {0, 5}

\* the records the two queries may start from: calibrated, boundary passed
RaceRecords ==
    [clock_src : {0}, rtc_offset : {Wide(0, 0)}, temp_cal : RaceCalSet,
     cal : RaceCalSet, sync_complete : {0}, last_raw : {0},
     last_drift : RaceDriftSet]

\* the counter advances between the steps of the cores
RaceTick ==
    /\ raw < MaxRaceRaw
    /\ \E c \in Cores : rpc[c] # "done"
    /\ raw' = raw + 1
    /\ UNCHANGED <<vdso, clockCall, monoRet, neutral, raceVars>>

\* timestamp t = apply(platform_monotonic_now)
RaceSample(c) ==
    /\ rpc[c] = "sample"
    /\ rraw' = [rraw EXCEPT ![c] = raw]
    /\ rpc' = [rpc EXCEPT ![c] = "read_drift"]
    /\ UNCHANGED <<vdso, raw, clockCall, monoRet, neutral, rld, rdrift, rret,
                   rinit>>

\* clock_get_drift: s64 drift = __vdso_dat->last_drift
RaceReadDrift(c) ==
    /\ rpc[c] = "read_drift"
    /\ rld' = [rld EXCEPT ![c] = vdso.last_drift]
    /\ rpc' = [rpc EXCEPT ![c] = "read_raw"]
    /\ UNCHANGED <<vdso, raw, clockCall, monoRet, neutral, rraw, rdrift, rret,
                   rinit>>

\* clock_get_drift: the reads of last_raw and the drift computed from them
RaceReadRaw(c) ==
    /\ rpc[c] = "read_raw"
    /\ rdrift' = [rdrift EXCEPT ![c] =
                     clock_get_drift([vdso EXCEPT !.last_drift = rld[c]],
                                     rraw[c])]
    /\ rpc' = [rpc EXCEPT ![c] = "write_drift"]
    /\ UNCHANGED <<vdso, raw, clockCall, monoRet, neutral, rraw, rld, rret,
                   rinit>>

\* clock_update_drift: __vdso_dat->last_drift = drift
RaceWriteDrift(c) ==
    /\ rpc[c] = "write_drift"
    /\ vdso' = [vdso EXCEPT !.last_drift = rdrift[c]]
    /\ rpc' = [rpc EXCEPT ![c] = "write_raw"]
    /\ UNCHANGED <<raw, clockCall, monoRet, neutral, rraw, rld, rdrift, rret,
                   rinit>>

\* clock_update_drift: __vdso_dat->last_raw = raw, and now() returns
RaceWriteRaw(c) ==
    /\ rpc[c] = "write_raw"
    /\ vdso' = [vdso EXCEPT !.last_raw = rraw[c]]
    /\ rret' = [rret EXCEPT ![c] = rraw[c] + rdrift[c]]
    /\ rpc' = [rpc EXCEPT ![c] = "done"]
    /\ UNCHANGED <<raw, clockCall, monoRet, neutral, rraw, rld, rdrift, rinit>>

\* no query is running
InitRaceIdle ==
    /\ rpc = [c \in Cores |-> "done"]
    /\ rraw = [c \in Cores |-> 0]
    /\ rld = [c \in Cores |-> 0]
    /\ rdrift = [c \in Cores |-> 0]
    /\ rret = [c \in Cores |-> 0]
    /\ rinit = [clock_src |-> 0, rtc_offset |-> Wide(0, 0), temp_cal |-> 0,
                cal |-> 0, sync_complete |-> 0, last_raw |-> 0,
                last_drift |-> 0]

(***************************************************************************)
(* The special file /sys/devices/system/cpu/online (src/src/unix/special.c)*)
(* sysreturn is signed 64 bits, lengths and offsets are unsigned 64 bits.  *)
(* The lengths, offsets and text sizes of the model are far below 2^30, so *)
(* an unsigned value is held either as itself or, when a subtraction went  *)
(* below zero, as the distance k it lies under 2^64.                       *)
(***************************************************************************)
\* the largest length a read asks for
MaxReadLength == 8

\* the largest offset a caller passes
MaxReadOffset == 8

\* f->offset is followed up to here
MaxFileOffset == 24

\* total_processors of the machines considered
ProcessorCounts == {1, 4, 16, 128}

\* what a byte outside the generated text may hold
StrayBytes == {"x", "y"}

DigitChars == <<"0", "1", "2", "3", "4", "5", "6", "7", "8", "9">>

RECURSIVE Decimal(_)
\* %d of a non-negative number
Decimal(n) ==
    IF n < 10 THEN <<DigitChars[n + 1]>>
    ELSE Append(Decimal(n \div 10), DigitChars[(n % 10) + 1])

\* bprintf(b, "0-%d\n", total_processors - 1)
OnlineText(procs) == <<"0", "-">> \o Decimal(procs - 1) \o <<"\n">>

buffer_length(b) == Len(b)

\* a - b in unsigned 64 bits
u64_sub(a, b) ==
    IF a >= b THEN [wrapped |-> FALSE, v |-> a - b]
    ELSE [wrapped |-> TRUE, v |-> b - a]

\* MIN(length, w), w a difference computed in unsigned 64 bits
MIN(length, w) ==
    IF w.wrapped THEN length
    ELSE IF length < w.v THEN length ELSE w.v

\* length = MIN(length, buffer_length(b) - offset)
CpuOnlineLength(b, length, offset) ==
    MIN(length, u64_sub(buffer_length(b), offset))

\* runtime_memcpy(dest, buffer_ref(b, offset), n): what arrives in dest; a
\* byte that is not one of the text holds whatever lies there
runtime_memcpy(b, offset, n, stray) ==
    [i \in 1 .. n |-> IF offset + i <= Len(b) THEN b[offset + i] ELSE stray]

\* the bytes of such a copy that lie outside the generated text
OutsideText(b, offset, n) ==
    Cardinality({i \in 1 .. n : offset + i > Len(b)})

\* spec_read on the file, cpu_online_read being its read operation
spec_read(length, offset) ==
    /\ sfOffset + length <= MaxFileOffset
    /\ \E stray \in StrayBytes :
          LET b == OnlineText(total_processors)
              nr == CpuOnlineLength(b, length, offset)
          IN  /\ sfDest' = runtime_memcpy(b, offset, nr, stray)
              /\ sfOffset' = IF nr > 0 THEN sfOffset + nr ELSE sfOffset
              /\ sfCall' = [op |-> "spec_read", length |-> length,
                            offset |-> offset, nr |-> nr,
                            outside |-> OutsideText(b, offset, nr),
                            before |-> sfOffset]
    /\ UNCHANGED total_processors

\* the file was opened and not read yet, on a machine with one processor
InitSpecialIdle ==
    /\ total_processors = 1
    /\ sfOffset = 0
    /\ sfDest = <<>>
    /\ sfCall = [op |-> "spec_open", length |-> 0, offset |-> 0, nr |-> 0,
                 outside |-> 0, before |-> 0]

(***************************************************************************)
(* clock_update_drift(r3) against clock_update_drift(r2) followed by       *)
(* clock_update_drift(r3), from one recorded state.                        *)
(***************************************************************************)
\* the largest raw reading of the experiment
MaxDriftRaw == 5

\* coefficients of the experiment: -1.5, -0.25, 0, 0.25 and 1.0
DriftCalSet == {-(CalOne + CalOne \div 2), -(CalOne \div 4), 0, CalOne \div 4,
                CalOne}

\* drifts recorded at r1
DriftSet == {-3, 0, 5}

DriftRecords ==
    [clock_src : {0}, rtc_offset : {Wide(0, 0)}, temp_cal : DriftCalSet,
     cal : DriftCalSet, sync_complete : 0 .. MaxDriftRaw,
     last_raw : 0 .. MaxDriftRaw, last_drift : DriftSet]

DriftDirect ==
    /\ dpc = "start"
    /\ dDirect' = clock_update_drift(vdso, dR3).last_drift
    /\ dpc' = "direct"
    /\ UNCHANGED <<vdso, raw, clockCall, monoRet, neutral, dR2, dR3, dInc>>

DriftViaR2 ==
    /\ dpc = "direct"
    /\ vdso' = clock_update_drift(vdso, dR2)
    /\ dpc' = "mid"
    /\ UNCHANGED <<raw, clockCall, monoRet, neutral, dR2, dR3, dDirect, dInc>>

DriftToR3 ==
    /\ dpc = "mid"
    /\ vdso' = clock_update_drift(vdso, dR3)
    /\ dInc' = clock_update_drift(vdso, dR3).last_drift
    /\ dpc' = "done"
    /\ UNCHANGED <<raw, clockCall, monoRet, neutral, dR2, dR3, dDirect>>

InitDrift ==
    /\ InitIrq
    /\ InitAlloc
    /\ InitPq
    /\ InitSync
    /\ InitTraceIdle
    /\ InitRaceIdle
    /\ InitSpecialIdle
    /\ vdso \in DriftRecords
    /\ dR2 \in 1 .. MaxDriftRaw
    /\ dR3 \in 2 .. MaxDriftRaw
    /\ vdso.last_raw < dR2
    /\ dR2 < dR3
    /\ raw = dR3
    /\ clockCall = Call("recorded", 0, vdso.last_raw)
    /\ monoRet = 0
    /\ neutral = FALSE
    /\ dpc = "start"
    /\ dDirect = 0
    /\ dInc = 0

InitDriftIdle ==
    /\ dpc = "off"
    /\ dR2 = 0
    /\ dR3 = 0
    /\ dDirect = 0
    /\ dInc = 0

Init ==
    InitIrq /\ InitAlloc /\ InitClock /\ InitDriftIdle /\ InitPq /\ InitSync
    /\ InitTraceIdle /\ InitRaceIdle /\ InitSpecialIdle

Next ==
    \/ \E v \in RegVectors, t \in Thunks :
          RegistryFree(v) /\ register_interrupt(v, t, t) /\ UNCHANGED <<allocVars, clockVars, driftVars, pqVars, syncVars, traceVars, raceVars, specialVars>>
    \/ \E v \in RegVectors :
          RegistryFree(v) /\ unregister_interrupt(v) /\ UNCHANGED <<allocVars, clockVars, driftVars, pqVars, syncVars, traceVars, raceVars, specialVars>>
    \/ \E v \in RegVectors : AssertLine(v) /\ UNCHANGED <<allocVars, clockVars, driftVars, pqVars, syncVars, traceVars, raceVars, specialVars>>
    \/ IrqEnter /\ UNCHANGED <<allocVars, clockVars, driftVars, pqVars, syncVars, traceVars, raceVars, specialVars>>
    \/ IrqDispatch /\ UNCHANGED <<allocVars, clockVars, driftVars, pqVars, syncVars, traceVars, raceVars, specialVars>>
    \/ IrqInvoke /\ UNCHANGED <<allocVars, clockVars, driftVars, pqVars, syncVars, traceVars, raceVars, specialVars>>
    \/ IrqEoi /\ UNCHANGED <<allocVars, clockVars, driftVars, pqVars, syncVars, traceVars, raceVars, specialVars>>
    \/ IrqExit /\ UNCHANGED <<allocVars, clockVars, driftVars, pqVars, syncVars, traceVars, raceVars, specialVars>>
    \/ Runloop /\ UNCHANGED <<allocVars, clockVars, driftVars, pqVars, syncVars, traceVars, raceVars, specialVars>>

Spec == Init /\ [][Next]_vars

NextAlloc ==
    \/ allocate_interrupt /\ UNCHANGED <<irqVars, clockVars, driftVars, pqVars, syncVars, traceVars, raceVars, specialVars>>
    \/ \E irq \in ReserveIds \cup outstanding :
          deallocate_interrupt(irq) /\ UNCHANGED <<irqVars, clockVars, driftVars, pqVars, syncVars, traceVars, raceVars, specialVars>>
    \/ \E irq \in ReserveIds \cup outstanding :
          reserve_interrupt(irq) /\ UNCHANGED <<irqVars, clockVars, driftVars, pqVars, syncVars, traceVars, raceVars, specialVars>>

SpecAlloc == Init /\ [][NextAlloc]_vars

NextClock ==
    \/ Tick /\ UNCHANGED <<irqVars, allocVars, driftVars, pqVars, syncVars, traceVars, raceVars, specialVars>>
    \/ \E id \in ClockIds : now(id) /\ UNCHANGED <<irqVars, allocVars, driftVars, pqVars, syncVars, traceVars, raceVars, specialVars>>
    \/ \E tc \in CalSet, sc \in SyncSet, c \in CalSet :
          clock_adjust(tc, sc, c) /\ UNCHANGED <<irqVars, allocVars, driftVars, pqVars, syncVars, traceVars, raceVars, specialVars>>

SpecClock == Init /\ [][NextClock]_vars

NextDrift ==
    \/ DriftDirect /\ UNCHANGED <<irqVars, allocVars, pqVars, syncVars, traceVars, raceVars, specialVars>>
    \/ DriftViaR2 /\ UNCHANGED <<irqVars, allocVars, pqVars, syncVars, traceVars, raceVars, specialVars>>
    \/ DriftToR3 /\ UNCHANGED <<irqVars, allocVars, pqVars, syncVars, traceVars, raceVars, specialVars>>

SpecDrift == InitDrift /\ [][NextDrift]_vars

NextPqueue ==
    \/ \E v \in Keys :
          pqueue_insert(v) /\ UNCHANGED <<irqVars, allocVars, clockVars, driftVars, syncVars, traceVars, raceVars, specialVars>>
    \/ pqueue_peek /\ UNCHANGED <<irqVars, allocVars, clockVars, driftVars, syncVars, traceVars, raceVars, specialVars>>
    \/ pqueue_pop /\ UNCHANGED <<irqVars, allocVars, clockVars, driftVars, syncVars, traceVars, raceVars, specialVars>>
    \/ \E i \in 1 .. MaxQueue, k \in Keys :
          PqChangeKey(i, k) /\ UNCHANGED <<irqVars, allocVars, clockVars, driftVars, syncVars, traceVars, raceVars, specialVars>>
    \/ pqueue_reorder /\ UNCHANGED <<irqVars, allocVars, clockVars, driftVars, syncVars, traceVars, raceVars, specialVars>>

SpecPqueue == Init /\ [][NextPqueue]_vars

(***************************************************************************)
(* Claims about the registry and the dispatcher, checked under Spec.       *)
(***************************************************************************)
RECURSIVE SortedIds(_)
\* the records of a set in the order they were allocated by register_interrupt
SortedIds(S) ==
    IF S = {} THEN <<>>
    ELSE LET m == CHOOSE x \in S : \A y \in S : x <= y
         IN <<m>> \o SortedIds(S \ {m})

Range(l) == {l[k] : k \in 1 .. Len(l)}

\* what one assertion of vector v with the records of l must produce
FullTrace(l, v) ==
    LET ord == SortedIds(Range(l))
    IN [k \in 1 .. Len(ord) |-> <<"apply", ord[k]>>] \o << <<"eoi", v>> >>

\* C1: one assertion of a vector with N >= 1 handlers applies the N handlers
\* once each in registration order and then sends one eoi for the id, never
\* before or between the handlers.
C1_InOrderThenEoi ==
    snap # <<>> =>
        LET full == FullTrace(snap, cur)
            N == Len(snap)
        IN /\ Cardinality(Range(snap)) = N
           /\ irqpc = "invoke" => hidx <= N /\ trace = SubSeq(full, 1, hidx - 1)
           /\ irqpc = "eoi" => trace = SubSeq(full, 1, N)
           /\ irqpc \notin {"invoke", "eoi"} => trace = full

C1_Witness ==
    /\ irqpc = "query"
    /\ Len(snap) = 2
    /\ trace = FullTrace(snap, cur)
    /\ cur = 45

\* C2: after any register and unregister calls, a line is enabled at the
\* controller exactly when its handler list is not empty.
C2_EnabledIffHandlers ==
    \A v \in VectorIds : (v \in gic.enabled) <=> ~list_empty(handlers[v])

C2_Witness ==
    /\ lastCall.op = "register"
    /\ lastCall.arg = 45
    /\ 45 \in gic.enabled
    /\ GIC_TIMER_IRQ \notin gic.enabled
    /\ \E h \in DOMAIN freeCount : freeCount[h] = 1

FirstRegistrationOps(v) ==
    << <<"set_int_priority", v, 0>>, <<"clear_pending_int", v>>,
       <<"enable_int", v>> >>

C3_Step ==
    lastCall'.op = "register" =>
        LET v == lastCall'.arg
        IN IF list_empty(handlers[v])
           THEN /\ gicOps' = FirstRegistrationOps(v)
                /\ gic'.priority[v] = 0
                /\ v \notin gic'.pending
                /\ v \in gic'.enabled
           ELSE /\ gicOps' = <<>>
                /\ gic'.priority[v] = gic.priority[v]
                /\ (v \in gic'.pending) <=> (v \in gic.pending)
                /\ (v \in gic'.enabled) <=> (v \in gic.enabled)

\* C3: a first registration sets the priority, clears the pending state and
\* then enables the line, so no assertion older than the registration can be
\* delivered; a registration on a vector that has a handler leaves the
\* controller's state of the vector alone.
C3_RegisterClearsStale ==
    /\ [][C3_Step]_vars
    /\ [](Deliverable(gic) \cap stale = {})

C3_Witness ==
    /\ lastCall = Call("register", 45, 2)
    /\ 45 \in gic.enabled
    /\ 45 \notin gic.pending
    /\ \E h \in DOMAIN freeCount : freeCount[h] = 1

C10_Step ==
    lastCall'.op = "unregister" =>
        LET v == lastCall'.arg
        IN /\ v \notin gic'.enabled
           /\ gicOps' = << <<"disable_int", v>> >>
           /\ IF list_empty(handlers[v])
              THEN /\ halted'
                   /\ haltMsg' = "no handler registered"
                   /\ handlers' = handlers
                   /\ freeCount' = freeCount
              ELSE /\ ~halted'
                   /\ list_empty(handlers'[v])
                   /\ \A w \in VectorIds \ {v} : handlers'[w] = handlers[w]
                   /\ \A h \in DOMAIN freeCount :
                         IF h \in Range(handlers[v])
                         THEN freeCount[h] = 0 /\ freeCount'[h] = 1
                         ELSE freeCount'[h] = freeCount[h]

\* C10: unregister_interrupt disables the line, then halts when the vector has
\* no handler, and otherwise removes and releases every handler of the vector
\* once, leaving the other vectors' lists as they were.
C10_UnregisterReleasesAll == [][C10_Step]_vars

C10_Witness ==
    /\ lastCall = Call("unregister", 45, 2)
    /\ ~halted
    /\ ~list_empty(handlers[GIC_TIMER_IRQ])
    /\ Cardinality({h \in DOMAIN freeCount : freeCount[h] = 1}) = 2

(***************************************************************************)
(* Claims about the vector allocator, checked under SpecAlloc.             *)
(***************************************************************************)
\* C4: allocate_interrupt never returns an id that is outstanding, and every
\* id it returns lies in [32, 256).
C4_Step ==
    (allocCall'.op = "allocate" /\ allocCall'.info # INVALID_PHYSICAL) =>
        /\ allocCall'.info \notin outstanding
        /\ allocCall'.info >= 32
        /\ allocCall'.info < 256

C4_AllocateFresh == [][C4_Step]_vars

\* an allocation that has to pass over an outstanding id at the bottom of the
\* range while the top id is outstanding too
C4_Witness ==
    /\ allocCall.op = "allocate"
    /\ allocCall.info = 33
    /\ 32 \in outstanding
    /\ 255 \in outstanding

(***************************************************************************)
(* Claims about the clock, checked under SpecClock.                        *)
(***************************************************************************)
\* no time returned wraps below zero in the model
ClockInRange == monoRet >= 0 /\ vdso.last_raw <= raw

DriftCorrected(id) == id # CLOCK_ID_MONOTONIC_RAW /\ id # CLOCK_ID_REALTIME

C5_Step ==
    (clockCall'.op = "now" /\ DriftCorrected(clockCall'.arg)) =>
        monoRet' >= monoRet

\* C5: for non-decreasing raw readings, across calibration events (negative
\* coefficients and a change to both coefficients zero included), the time
\* raw + drift that now() returns for a drift-corrected id never decreases.
C5_CorrectedNonDecreasing == [][C5_Step]_vars

\* scale(i, c) of the drift model
Scale(i, c) ==
    IF c < 0 THEN -((i * (-c)) \div (2 ^ CalFracBits))
    ELSE (i * c) \div (2 ^ CalFracBits)

\* the three-case drift model
DriftModel(d, r) ==
    IF r <= d.sync_complete
    THEN d.last_drift + Scale(r - d.last_raw, d.temp_cal)
    ELSE IF d.last_raw > d.sync_complete
    THEN d.last_drift + Scale(r - d.last_raw, d.cal)
    ELSE d.last_drift + Scale(d.sync_complete - d.last_raw, d.temp_cal)
                      + Scale(r - d.sync_complete, d.cal)

C7_Step ==
    (clockCall'.op = "now" /\ clockCall'.arg # CLOCK_ID_MONOTONIC_RAW) =>
        vdso'.last_drift = DriftModel(vdso, raw)

\* C7: for every stored state and every reading r >= last_raw the drift of
\* clock_get_drift(r) is the three-case drift model's.
C7_DriftIsModel == [][C7_Step]_vars

(***************************************************************************)
(* Claims about the drift functions, checked under SpecDrift.              *)
(***************************************************************************)
\* C6: for r1 < r2 < r3 and fixed coefficients and boundary, the drift of
\* clock_update_drift(r3) from the state recorded at r1 equals the drift of
\* clock_update_drift(r2) followed by clock_update_drift(r3).
C6_PathIndependent == dpc = "done" => dInc = dDirect

\* a coefficient that is a whole multiple of 2^32
WholeRate(c) == c % CalOne = 0

\* C6 as amended: the drift reached through r2 differs from the drift computed
\* directly at r3 by at most 1, and the two are equal when both coefficients
\* are whole multiples of 2^32.
C6_PathWithinOne ==
    dpc = "done" =>
        /\ dInc - dDirect \in {-1, 0, 1}
        /\ (WholeRate(vdso.temp_cal) /\ WholeRate(vdso.cal)) => dInc = dDirect

\* r2 before the boundary and r3 past it, and the two paths one apart
C6_Witness ==
    /\ dpc = "done"
    /\ dDirect - dInc = 1
    /\ dR2 < vdso.sync_complete
    /\ vdso.sync_complete < dR3

(***************************************************************************)
(* Claims about the priority queue, checked under SpecPqueue.              *)
(***************************************************************************)
NonDecreasing(l) == \A i \in 1 .. Len(l) - 1 : ~PqLess(l[i + 1], l[i])

C8_Step ==
    /\ pqCall'.op = "pop" => pqCall'.info = PqPeeked(pq)
    /\ pqCall'.op = "peek" => pqCall'.info = PqPopReturn(pq) /\ pq' = pq
    /\ (pqCall'.op = "pop" /\ pq # <<>>) =>
           /\ Len(pq') = Len(pq) - 1
           /\ \A i \in 1 .. Len(pq') : ~PqLess(pq'[i], pqCall'.info)
    /\ (pqCall'.op \in {"pop", "peek"} /\ pq = <<>>) =>
           pqCall'.info = PQ_EMPTY /\ pq' = <<>>

\* C8: inserts followed by pops return the inserted values in the
\* predicate's non-decreasing order, each once; pqueue_peek returns what the
\* next pqueue_pop returns, the empty sentinel on an empty queue.
C8_PopsInOrder ==
    /\ [][C8_Step]_vars
    /\ [](~pqDirty => /\ NonDecreasing(pqPopped)
                      /\ PqBag(pq) = pqHeld
                      /\ \A i \in 1 .. Len(pq) :
                            \A j \in 1 .. Len(pqPopped) :
                               ~PqLess(pq[i], pqPopped[j]))

\* 5, 3, 8, 1 inserted, then four pops
C8_Witness ==
    /\ pqPopped = <<1, 3, 5, 8>>
    /\ pq = <<>>
    /\ pqCall = Call("pop", 0, 8)

C9_Step ==
    pqCall'.op = "reorder" => PqIsHeap(pq') /\ PqBag(pq') = PqBag(pq)

\* C9: after keys of contained elements were changed from outside, one
\* pqueue_reorder restores the heap property over the whole array, and the
\* pops that follow return the elements in the order of their new keys.
C9_ReorderRestoresHeap ==
    /\ [][C9_Step]_vars
    /\ [](~pqDirty => PqIsHeap(pq) /\ NonDecreasing(pqPopped))

\* a reorder of an array that was out of order, then all of it popped
C9_Witness ==
    /\ pqSince = "reorder_repair"
    /\ pqCall.op = "pop"
    /\ pq = <<>>
    /\ Len(pqPopped) >= 3

(***************************************************************************)
(* SpecDefect: the registry and irq_handler when the controller can signal *)
(* ids that no handler is registered for.                                  *)
(***************************************************************************)
NextDefect ==
    \/ \E v \in UnregisteredIds : gic_enable_other(v) /\ UNCHANGED <<allocVars, clockVars, driftVars, pqVars, syncVars, traceVars, raceVars, specialVars>>
    \/ \E v \in {GIC_TIMER_IRQ} \cup UnregisteredIds :
          AssertLine(v) /\ UNCHANGED <<allocVars, clockVars, driftVars, pqVars, syncVars, traceVars, raceVars, specialVars>>
    \/ IrqEnter /\ UNCHANGED <<allocVars, clockVars, driftVars, pqVars, syncVars, traceVars, raceVars, specialVars>>
    \/ IrqDispatch /\ UNCHANGED <<allocVars, clockVars, driftVars, pqVars, syncVars, traceVars, raceVars, specialVars>>
    \/ IrqInvoke /\ UNCHANGED <<allocVars, clockVars, driftVars, pqVars, syncVars, traceVars, raceVars, specialVars>>
    \/ IrqEoi /\ UNCHANGED <<allocVars, clockVars, driftVars, pqVars, syncVars, traceVars, raceVars, specialVars>>
    \/ IrqExit /\ UNCHANGED <<allocVars, clockVars, driftVars, pqVars, syncVars, traceVars, raceVars, specialVars>>
    \/ Runloop /\ UNCHANGED <<allocVars, clockVars, driftVars, pqVars, syncVars, traceVars, raceVars, specialVars>>

SpecDefect == Init /\ [][NextDefect]_vars

\* the two halts of irq_handler's dispatch
DispatchHalts == {"exceeds MAX_INTERRUPT_VECTORS", "no handler for interrupt"}

C11_Step ==
    /\ (/\ lastCall'.op = "dispatch"
        /\ \/ lastCall'.arg \notin VectorIds
           \/ list_empty(HandlerList(lastCall'.arg)))
       => /\ halted'
          /\ haltMsg' \in DispatchHalts
          /\ trace' = <<>>
          /\ lastCall'.arg \in gic'.active
    /\ halted => /\ halted'
                 /\ irqpc' = irqpc
                 /\ trace' = trace
                 /\ gic'.active = gic.active

\* C11: a dispatched id that is out of range, or in range with an empty
\* handler list, halts the core: no handler is applied for it, no eoi is sent
\* for it, and the core never reaches the run loop afterwards.
C11_DefectHalts ==
    /\ [][C11_Step]_vars
    /\ [](halted /\ haltMsg \in DispatchHalts
            => /\ irqpc = "query"
               /\ trace = <<>>
               /\ cur \in gic.active)

\* the controller signalled id 256 and the core halted on it
C11_Witness ==
    /\ halted
    /\ haltMsg = "exceeds MAX_INTERRUPT_VECTORS"
    /\ cur = MAX_INTERRUPT_VECTORS
    /\ cur \in gic.active
    /\ trace = <<>>

(***************************************************************************)
(* The drain loop of irq_handler, checked under Spec.                      *)
(***************************************************************************)
C13_Step ==
    (irqpc' = "runloop" /\ irqpc # "runloop")
       => /\ irqpc = "query"
          /\ Deliverable(gic) = {}
          /\ arrived = {}
          /\ taken \cap gic.active = {}

\* C13: irq_handler yields to the run loop only from a query that the
\* controller answered with no pending id, and by then every id that was
\* asserted on a registered line during the drain has been dispatched, its
\* handlers applied in full and its eoi sent.
C13_DrainLosesNothing ==
    /\ [][C13_Step]_vars
    /\ []((irqpc = "query" /\ cur \in taken)
            => /\ trace = FullTrace(snap, cur)
               /\ cur \notin gic.active)

\* the core yields after serving vector 45, which was asserted while the
\* timer interrupt was being handled
C13_Witness ==
    /\ irqpc = "runloop"
    /\ taken = {45}
    /\ cur = 45
    /\ Len(snap) = 2
    /\ trace = FullTrace(snap, cur)

(***************************************************************************)
(* SpecSync: synchronous, SError and invalid-entry traps on one core.      *)
(***************************************************************************)
NextSync ==
    \/ \E f \in Frames, esr \in EsrWords, x8 \in SyscallNumbers,
          fh \in BOOLEAN, full \in BOOLEAN :
          TakeSync(f, esr, x8, fh, full) /\ UNCHANGED <<irqVars, allocVars, clockVars, driftVars, pqVars, traceVars, raceVars, specialVars>>
    \/ synchronous_handler /\ UNCHANGED <<irqVars, allocVars, clockVars, driftVars, pqVars, traceVars, raceVars, specialVars>>
    \/ SyscallReturns /\ UNCHANGED <<irqVars, allocVars, clockVars, driftVars, pqVars, traceVars, raceVars, specialVars>>
    \/ SyscallSchedules /\ UNCHANGED <<irqVars, allocVars, clockVars, driftVars, pqVars, traceVars, raceVars, specialVars>>
    \/ \E r \in Frames \cup {"none"} :
          FaultHandlerReturns(r) /\ UNCHANGED <<irqVars, allocVars, clockVars, driftVars, pqVars, traceVars, raceVars, specialVars>>
    \/ SyncRunloop /\ UNCHANGED <<irqVars, allocVars, clockVars, driftVars, pqVars, traceVars, raceVars, specialVars>>
    \/ \E faults \in BOOLEAN :
          Diagnostic(faults) /\ UNCHANGED <<irqVars, allocVars, clockVars, driftVars, pqVars, traceVars, raceVars, specialVars>>
    \/ serror_handler /\ UNCHANGED <<irqVars, allocVars, clockVars, driftVars, pqVars, traceVars, raceVars, specialVars>>
    \/ invalid_handler /\ UNCHANGED <<irqVars, allocVars, clockVars, driftVars, pqVars, traceVars, raceVars, specialVars>>

SpecSync == Init /\ [][NextSync]_vars

(***************************************************************************)
(* Claims about the synchronous trap path, checked under SpecSync.         *)
(***************************************************************************)
HasEvent(e) == \E k \in 1 .. Len(slog) : slog[k][1] = e

CountEvent(e) == Cardinality({k \in 1 .. Len(slog) : slog[k][1] = e})

\* the cause word is a supervisor call whose immediate operand is zero
SupervisorCallZero(esr) ==
    ESR_EC(esr) = ESR_EC_SVC_AARCH64 /\ ESR_ISS_IMM16(esr) = 0

C12_Step ==
    (spc = "entry" /\ spc' # "entry")
       => LET f == runningFrame
          IN /\ (spc' = "syscall") <=> SupervisorCallZero(frames[f].esr)
             /\ spc' = "syscall"
                  => /\ frames'[f].vector = frames[f].x8
                     /\ runningFrame' = "kernel"
                     /\ f = trapFrame
                     /\ slog' = Append(slog, <<"syscall", f>>)

\* C12: a synchronous trap is taken as a syscall exactly when its cause word
\* is a supervisor call with immediate zero; then x8 is stored as the frame's
\* vector, the running frame becomes the kernel-context frame, the syscall
\* entry gets the trapped frame, and no fault handler is consulted.
C12_SyscallClassified ==
    /\ [][C12_Step]_vars
    /\ [](HasEvent("syscall")
            => /\ ~HasEvent("fault_handler")
               /\ ~HasEvent("no fault handler")
               /\ slog[2] = <<"syscall", trapFrame>>)

\* svc #0 from the thread's frame with x8 = 93
C12_Witness ==
    /\ spc = "syscall"
    /\ trapFrame = "thread"
    /\ frames["thread"].esr = EsrWord(ESR_EC_SVC_AARCH64, 1, 0, 0)
    /\ frames["thread"].vector = 93
    /\ runningFrame = "kernel"
    /\ slog = << <<"trap", "thread">>, <<"syscall", "thread">> >>

\* C14: with a fault handler on the frame of a non-syscall trap, the handler
\* is applied once with that frame; a resume frame is returned to with no
\* run loop and the frame's full flag as it was; with none, the run loop is
\* entered, after the flag is cleared exactly when the frame is the core's
\* kernel-context frame.
C14_FaultHandlerPath ==
    (Len(slog) >= 2 /\ slog[2][1] = "fault_handler")
       => LET f == trapFrame
          IN /\ slog[1] = <<"trap", f>>
             /\ slog[2] = <<"fault_handler", f>>
             /\ ~IsSyscall(frames[f].esr)
             /\ CountEvent("fault_handler") = 1
             /\ ~HasEvent("syscall")
             /\ Len(slog) = 2 => spc = "fault_handler"
             /\ Len(slog) >= 3
                  => \/ /\ slog[3][1] = "frame_return"
                        /\ Len(slog) = 3
                        /\ spc = "run"
                        /\ frames[f].full = fullAtTrap
                     \/ /\ is_current_kernel_context(f)
                        /\ slog[3] = <<"clear_full", f>>
                        /\ Len(slog) >= 4
                        /\ slog[4] = <<"runloop", f>>
                        /\ ~frames[f].full
                     \/ /\ ~is_current_kernel_context(f)
                        /\ slog[3] = <<"runloop", f>>
                        /\ frames[f].full = fullAtTrap

\* a fault on the kernel-context frame whose handler returned no frame
C14_Witness ==
    /\ spc = "runloop"
    /\ trapFrame = "kernel"
    /\ fullAtTrap
    /\ ~frames["kernel"].full
    /\ slog = << <<"trap", "kernel">>, <<"fault_handler", "kernel">>,
                 <<"clear_full", "kernel">>, <<"runloop", "kernel">> >>

C15_Step ==
    /\ (/\ spc = "entry"
        /\ ~IsSyscall(frames[runningFrame].esr)
        /\ ~frames[runningFrame].fh)
       => spc' = "diag"
    /\ shalted => /\ shalted'
                  /\ spc' = spc
                  /\ slog' = slog

\* C15: a non-syscall trap on a frame without a fault handler ends in the
\* diagnostic and the endless loop: no frame is resumed, neither the run
\* loop nor the syscall entry is entered, and a halted core stays halted;
\* serror_handler and invalid_handler halt in the same way.
C15_UnhandledIsTerminal ==
    /\ [][C15_Step]_vars
    /\ [](HasEvent("no fault handler")
            => /\ spc \in {"diag", "entry"}
               /\ \A k \in 1 .. Len(slog) :
                     slog[k][1] \in {"trap", "no fault handler", "halt"})
    /\ [](HasEvent("halt") => shalted)

\* the diagnostic took a fault of its own once and the core then reached
\* while(1)
C15_Witness ==
    /\ shalted
    /\ nested = 1
    /\ slog = << <<"trap", "thread">>, <<"no fault handler", "thread">>,
                 <<"halt", "while(1)">> >>

(***************************************************************************)
(* SpecTrace: one walker run over a start pointer and a set of mapped      *)
(* words, both drawn at the start.                                         *)
(***************************************************************************)
InitTrace ==
    /\ InitIrq
    /\ InitAlloc
    /\ InitClock
    /\ InitDriftIdle
    /\ InitPq
    /\ InitSync
    /\ InitRaceIdle
    /\ InitSpecialIdle
    /\ walker \in {"frame_trace", "print_stack"}
    /\ tpc = "walk"
    /\ mapped \in SUBSET MemWords
    /\ fp \in IF walker = "frame_trace" THEN FramePointers ELSE StackPointers
    /\ tcount = 0
    /\ reads = {}
    /\ printed = 0

NextTrace ==
    \/ \E n \in ReturnAddresses, nextfp \in FramePointers :
          frame_trace(n, nextfp) /\ UNCHANGED <<irqVars, allocVars, clockVars, driftVars, pqVars, syncVars, raceVars, specialVars>>
    \/ print_stack /\ UNCHANGED <<irqVars, allocVars, clockVars, driftVars, pqVars, syncVars, raceVars, specialVars>>

SpecTrace == InitTrace /\ [][NextTrace]_vars

\* frame_trace alone: only validated words are read, at most 16 frames are
\* printed, and the walk does not go on from a frame pointer below 4096
FrameTraceValidates ==
    walker = "frame_trace"
       => /\ reads \subseteq mapped
          /\ printed <= FRAME_TRACE_DEPTH
          /\ tcount <= FRAME_TRACE_DEPTH
          /\ \A a \in reads : a >= FRAME_TRACE_MIN

\* print_stack alone: at most 128 entries, all below the top address
PrintStackBounded ==
    walker = "print_stack"
       => /\ Cardinality(reads) <= STACK_TRACE_DEPTH
          /\ tcount <= STACK_TRACE_DEPTH
          /\ \A a \in reads : a < STACK_TRACE_TOP

\* C16: neither walker reads a word that validate_virtual rejects;
\* frame_trace prints at most 16 frames and stops at a frame pointer below
\* 4096 or a null return address; print_stack reads at most 128 entries,
\* all below the top address.
C16_WalkersValidate ==
    /\ reads \subseteq mapped
    /\ FrameTraceValidates
    /\ PrintStackBounded

(***************************************************************************)
(* SpecReinit: the clock with its source registered again at any time.     *)
(***************************************************************************)
\* clock-source identifiers handed to register_platform_clock_now
VdsoClockIds == {1, 3}

\* what rtc_gettimeofday returns: no real-time clock, or epoch seconds
RtcSeconds == {0, 3}

\* coefficients of the calibration events between registrations
ReinitCalSet == {-(CalOne \div 2), CalOne}

NextReinit ==
    \/ Tick /\ UNCHANGED <<irqVars, allocVars, driftVars, pqVars, syncVars, traceVars, raceVars, specialVars>>
    \/ \E id \in ClockIds : now(id) /\ UNCHANGED <<irqVars, allocVars, driftVars, pqVars, syncVars, traceVars, raceVars, specialVars>>
    \/ \E tc \in ReinitCalSet, sc \in SyncSet, c \in ReinitCalSet :
          clock_adjust(tc, sc, c) /\ UNCHANGED <<irqVars, allocVars, driftVars, pqVars, syncVars, traceVars, raceVars, specialVars>>
    \/ \E id \in VdsoClockIds, secs \in RtcSeconds :
          register_platform_clock_now(id, secs) /\ UNCHANGED <<irqVars, allocVars, driftVars, pqVars, syncVars, traceVars, raceVars, specialVars>>

SpecReinit == Init /\ [][NextReinit]_vars

C17_Step ==
    /\ clockCall'.op = "register_platform_clock_now"
         => vdso' = [clock_src |-> clockCall'.arg,
                     rtc_offset |-> IF clockCall'.info = 0 THEN Wide(0, 0)
                                    ELSE Wide(clockCall'.info, -raw),
                     temp_cal |-> 0, cal |-> 0, sync_complete |-> 0,
                     last_raw |-> 0, last_drift |-> 0]
    /\ (neutral /\ clockCall'.op = "now" /\ DriftCorrected(clockCall'.arg))
         => clockCall'.info = raw

\* C17: register_platform_clock_now, from whatever calibration state, leaves
\* both coefficients, the boundary, last_raw and last_drift zero, clock_src
\* the given id, and rtc_offset (rt << 32) - raw, or zero when rt is zero;
\* until the next calibration event a drift-corrected monotonic query
\* returns the raw reading.
C17_RegisterResets == [][C17_Step]_vars

\* the source was registered again at raw reading 2 with the real-time
\* clock at 3 s, and a later monotonic query returned the raw reading
C17_Witness ==
    /\ neutral
    /\ vdso.clock_src = 3
    /\ vdso.rtc_offset = Wide(3, -2)
    /\ clockCall = Call("now", CLOCK_ID_MONOTONIC, 3)
    /\ raw = 3

(***************************************************************************)
(* What a time query stores, checked under SpecClock.                      *)
(***************************************************************************)
\* the query stored its reading and the drift derived for it
StoresReading ==
    /\ vdso'.last_raw = raw
    /\ vdso'.last_drift = clock_get_drift(vdso, raw)

C18_StepEvery == clockCall'.op = "now" => StoresReading

\* C18: every now(id), for every clock id, stores the raw reading it
\* observed as last_raw and the drift derived for it as last_drift.
C18_EveryQueryUpdates == [][C18_StepEvery]_vars

C18_StepButRaw ==
    /\ (clockCall'.op = "now" /\ clockCall'.arg # CLOCK_ID_MONOTONIC_RAW)
         => /\ StoresReading
            /\ vdso' = [vdso EXCEPT !.last_raw = vdso'.last_raw,
                                    !.last_drift = vdso'.last_drift]
    /\ (clockCall'.op = "now" /\ clockCall'.arg = CLOCK_ID_MONOTONIC_RAW)
         => /\ vdso' = vdso
            /\ clockCall'.info = raw

\* C18 as amended: now(id) stores its reading and the derived drift for
\* every id but CLOCK_ID_MONOTONIC_RAW; for that id it returns the raw
\* reading and leaves the calibration record as it was.
C18_QueriesUpdateButRaw == [][C18_StepButRaw]_vars

\* a raw query at reading 3 that left a calibrated record at last_raw = 1
C18_Witness ==
    /\ clockCall = Call("now", CLOCK_ID_MONOTONIC_RAW, 3)
    /\ raw = 3
    /\ vdso.last_raw = 1
    /\ vdso.cal = CalOne

(***************************************************************************)
(* SpecSmp: registry calls made while irq_handler walks a vector's list,   *)
(* by one of the handlers it applies or by another core.                   *)
(***************************************************************************)
NextSmp ==
    \/ \E v \in RegVectors, t \in Thunks :
          register_interrupt(v, t, t) /\ UNCHANGED <<allocVars, clockVars, driftVars, pqVars, syncVars, traceVars, raceVars, specialVars>>
    \/ \E v \in RegVectors :
          unregister_interrupt(v) /\ UNCHANGED <<allocVars, clockVars, driftVars, pqVars, syncVars, traceVars, raceVars, specialVars>>
    \/ \E v \in RegVectors : AssertLine(v) /\ UNCHANGED <<allocVars, clockVars, driftVars, pqVars, syncVars, traceVars, raceVars, specialVars>>
    \/ IrqEnter /\ UNCHANGED <<allocVars, clockVars, driftVars, pqVars, syncVars, traceVars, raceVars, specialVars>>
    \/ IrqDispatch /\ UNCHANGED <<allocVars, clockVars, driftVars, pqVars, syncVars, traceVars, raceVars, specialVars>>
    \/ IrqInvoke /\ UNCHANGED <<allocVars, clockVars, driftVars, pqVars, syncVars, traceVars, raceVars, specialVars>>
    \/ IrqEoi /\ UNCHANGED <<allocVars, clockVars, driftVars, pqVars, syncVars, traceVars, raceVars, specialVars>>
    \/ IrqExit /\ UNCHANGED <<allocVars, clockVars, driftVars, pqVars, syncVars, traceVars, raceVars, specialVars>>
    \/ Runloop /\ UNCHANGED <<allocVars, clockVars, driftVars, pqVars, syncVars, traceVars, raceVars, specialVars>>

SpecSmp == Init /\ [][NextSmp]_vars

\* C19: an unregister_interrupt(v) issued while irq_handler applies v's
\* handlers leaves the current assertion alone: the handlers registered at
\* the dispatch each run once, the eoi is sent, and irq_handler never reads
\* or applies a record that was released.
C19_UnregisterDeferred ==
    /\ ~uaf
    /\ haltMsg # "released record"
    /\ (snap # <<>> /\ ~halted /\ ~Draining) => trace = FullTrace(snap, cur)

(***************************************************************************)
(* SpecRace: one drift-corrected query on each of two cores, no            *)
(* calibration event in between.                                           *)
(***************************************************************************)
InitRace ==
    /\ InitIrq
    /\ InitAlloc
    /\ InitDriftIdle
    /\ InitPq
    /\ InitSync
    /\ InitTraceIdle
    /\ InitSpecialIdle
    /\ vdso \in RaceRecords
    /\ raw = 1
    /\ clockCall = Call("recorded", 0, 0)
    /\ monoRet = 0
    /\ neutral = FALSE
    /\ rpc = [c \in Cores |-> "sample"]
    /\ rraw = [c \in Cores |-> 0]
    /\ rld = [c \in Cores |-> 0]
    /\ rdrift = [c \in Cores |-> 0]
    /\ rret = [c \in Cores |-> 0]
    /\ rinit = vdso

NextRace ==
    \/ RaceTick /\ UNCHANGED <<irqVars, allocVars, driftVars, pqVars, syncVars, traceVars, specialVars>>
    \/ \E c \in Cores : RaceSample(c) /\ UNCHANGED <<irqVars, allocVars, driftVars, pqVars, syncVars, traceVars, specialVars>>
    \/ \E c \in Cores : RaceReadDrift(c) /\ UNCHANGED <<irqVars, allocVars, driftVars, pqVars, syncVars, traceVars, specialVars>>
    \/ \E c \in Cores : RaceReadRaw(c) /\ UNCHANGED <<irqVars, allocVars, driftVars, pqVars, syncVars, traceVars, specialVars>>
    \/ \E c \in Cores : RaceWriteDrift(c) /\ UNCHANGED <<irqVars, allocVars, driftVars, pqVars, syncVars, traceVars, specialVars>>
    \/ \E c \in Cores : RaceWriteRaw(c) /\ UNCHANGED <<irqVars, allocVars, driftVars, pqVars, syncVars, traceVars, specialVars>>

SpecRace == InitRace /\ [][NextRace]_vars

Abs(x) == IF x < 0 THEN -x ELSE x

\* the orders in which the two queries can run one after the other: the
\* earlier reading first
RaceOrders == {o \in {<<1, 2>>, <<2, 1>>} : rraw[o[1]] <= rraw[o[2]]}

\* the record after the query of core x and then that of core y
SeqFinal(x, y) ==
    clock_update_drift(clock_update_drift(rinit, rraw[x]), rraw[y])

\* what the queries return when x runs first and y second
SeqFirst(x) == rraw[x] + clock_update_drift(rinit, rraw[x]).last_drift

SeqSecond(x, y) == rraw[y] + SeqFinal(x, y).last_drift

\* the drift that accrues between the two readings
RaceAccrued == Abs(clock_calculate_drift(Abs(rraw[1] - rraw[2]), rinit.cal))

\* C20: whatever the interleaving of the two queries' reads and writes, the
\* pair (last_raw, last_drift) stored at the end is the one some sequential
\* order of the two queries stores, and each query returns a time within the
\* drift accrued between the two readings of its sequential value.
C20_RaceIsBenign ==
    (\A c \in Cores : rpc[c] = "done")
       => \E o \in RaceOrders :
             /\ vdso.last_raw = SeqFinal(o[1], o[2]).last_raw
             /\ vdso.last_drift = SeqFinal(o[1], o[2]).last_drift
             /\ Abs(rret[o[1]] - SeqFirst(o[1])) <= RaceAccrued
             /\ Abs(rret[o[2]] - SeqSecond(o[1], o[2])) <= RaceAccrued

(***************************************************************************)
(* SpecSpecial: reads of /sys/devices/system/cpu/online at the file's own  *)
(* offset and at offsets the caller passes.                                *)
(***************************************************************************)
InitSpecial ==
    /\ InitIrq
    /\ InitAlloc
    /\ InitClock
    /\ InitDriftIdle
    /\ InitPq
    /\ InitSync
    /\ InitTraceIdle
    /\ InitRaceIdle
    /\ total_processors \in ProcessorCounts
    /\ sfOffset = 0
    /\ sfDest = <<>>
    /\ sfCall = [op |-> "spec_open", length |-> 0, offset |-> 0, nr |-> 0,
                 outside |-> 0, before |-> 0]

NextSpecial ==
    \/ \E length \in 0 .. MaxReadLength :
          spec_read(length, sfOffset) /\ UNCHANGED <<irqVars, allocVars, clockVars, driftVars, pqVars, syncVars, traceVars, raceVars>>
    \/ \E length \in 0 .. MaxReadLength, offset \in 0 .. MaxReadOffset :
          spec_read(length, offset) /\ UNCHANGED <<irqVars, allocVars, clockVars, driftVars, pqVars, syncVars, traceVars, raceVars>>

SpecSpecial == InitSpecial /\ [][NextSpecial]_vars

\* the bytes of the generated text at or after the offset
TextLeft(offset) ==
    IF offset >= Len(OnlineText(total_processors)) THEN 0
    ELSE Len(OnlineText(total_processors)) - offset

\* f->offset moved by the returned count when it is positive, else not at all
SpecReadAdvances ==
    sfCall.op = "spec_read"
       => sfOffset = IF sfCall.nr > 0 THEN sfCall.before + sfCall.nr
                     ELSE sfCall.before

\* a read at an offset inside the text or at its end stays inside the text
CpuOnlineWithinAtOrBeforeEnd ==
    (sfCall.op = "spec_read"
        /\ sfCall.offset <= Len(OnlineText(total_processors)))
       => /\ sfCall.nr <= TextLeft(sfCall.offset)
          /\ sfCall.outside = 0
          /\ sfDest = SubSeq(OnlineText(total_processors), sfCall.offset + 1,
                             sfCall.offset + sfCall.nr)

\* C21: for every requested length and every offset, the offsets at or past
\* the end of the generated text included, a read of the cpu/online file
\* returns at most the bytes of the text at or after the offset (zero at or
\* past the end), reads nothing outside the generated text, and spec_read
\* moves the file offset by the returned count when positive, else not at all.
C21_ReadWithinText ==
    sfCall.op = "spec_read"
       => /\ sfCall.nr <= TextLeft(sfCall.offset)
          /\ sfCall.outside = 0
          /\ sfOffset = IF sfCall.nr > 0 THEN sfCall.before + sfCall.nr
                        ELSE sfCall.before

====
